---------------------------- MODULE Spec2Model ----------------------------
(***************************************************************************)
(* State-machine model of the two programs of the repository:              *)
(*   src/Interseccao.py    class Interseccao, entry point processamento()  *)
(*   src/unnamed/part_000  class Interseccao, entry point executar()       *)
(* Both scan the project's layer registry for layers named after three     *)
(* environmental categories or after Camada01..Camada04, condition the     *)
(* selected layers (reprojection, then geometry repair) and run a chain of *)
(* intersection / difference calls of the QGIS processing engine.          *)
(*                                                                         *)
(* Geometry is modelled on a finite set of ground cells: a feature's       *)
(* geometry is the set of cell coordinates it covers in the layer's CRS,   *)
(* a reprojection moves coordinates, and the overlay algorithms are the    *)
(* set operations, feature by feature.  Layer names are sequences of       *)
(* characters, so that normalizar_texto and the substring test are         *)
(* computed and not assumed.  Every call of the processing engine either   *)
(* returns its result or raises, chosen nondeterministically.              *)
(***************************************************************************)
EXTENDS Naturals, Integers, Sequences, FiniteSets

(***************************************************************************)
(* Bounds of the model.                                                    *)
(***************************************************************************)
\* Number of ground cells geometries are drawn from.
NCells == 2
\* Number of coordinate reference systems (authids 1..NCrs).
NCrs == 2
\* Largest number of layers in the project registry before a run.
MaxLayers == 3
\* Largest number of engine calls that raise in one run.
MaxFalhas == 2
\* Largest number of features of a layer handed directly to the annotator.
MaxFeats == 2
\* Largest number of annotator calls on that layer.
MaxAnota == 2

Cells == 1..NCells
CRSs  == 1..NCrs

(***************************************************************************)
(* Names.  A name is a sequence of characters.                             *)
(***************************************************************************)
\* nomes_prioritarios / nomes_ambientais, in declared order.
\* "área de supressão"
NomeSupressao ==
  <<"á","r","e","a"," ","d","e"," ","s","u","p","r","e","s","s","ã","o">>
\* "Área de Preservação Permanente"
NomeAPP ==
  <<"Á","r","e","a"," ","d","e"," ","P","r","e","s","e","r","v","a","ç","ã","o"," ","P","e","r","m","a","n","e","n","t","e">>
\* "Reserva legal"
NomeRL ==
  <<"R","e","s","e","r","v","a"," ","l","e","g","a","l">>
nomes_prioritarios == <<NomeSupressao, NomeAPP, NomeRL>>

\* The generic positional names, in declared order.
\* "Camada01"
Camada01 ==
  <<"C","a","m","a","d","a","0","1">>
\* "Camada02"
Camada02 ==
  <<"C","a","m","a","d","a","0","2">>
\* "Camada03"
Camada03 ==
  <<"C","a","m","a","d","a","0","3">>
\* "Camada04"
Camada04 ==
  <<"C","a","m","a","d","a","0","4">>
nomes_genericos == <<Camada01, Camada02, Camada03, Camada04>>

\* Names given to the published layers.
\* "Área de supressão em APP"
NomeSaidaAPP ==
  <<"Á","r","e","a"," ","d","e"," ","s","u","p","r","e","s","s","ã","o"," ","e","m"," ","A","P","P">>
\* "Área de supressão em RL"
NomeSaidaRL ==
  <<"Á","r","e","a"," ","d","e"," ","s","u","p","r","e","s","s","ã","o"," ","e","m"," ","R","L">>
\* "Área de supressão fora"
NomeSaidaFora ==
  <<"Á","r","e","a"," ","d","e"," ","s","u","p","r","e","s","s","ã","o"," ","f","o","r","a">>
\* "Fora Total"
NomeForaTotal ==
  <<"F","o","r","a"," ","T","o","t","a","l">>
\* f"Área Camada {i:02d}" for the loop index i (at most 99 here).
Digito == <<"0","1","2","3","4","5","6","7","8","9">>
NomeAreaCamada(i) ==
  <<"Á","r","e","a"," ","C","a","m","a","d","a"," ">> \o <<Digito[((i \div 10) % 10) + 1], Digito[(i % 10) + 1]>>

\* Names the processing engine gives to its memory outputs.
\* "Fixed geometries"
NomeFixed ==
  <<"F","i","x","e","d"," ","g","e","o","m","e","t","r","i","e","s">>
\* "Reprojected"
NomeReprojected ==
  <<"R","e","p","r","o","j","e","c","t","e","d">>
\* "Intersection"
NomeIntersection ==
  <<"I","n","t","e","r","s","e","c","t","i","o","n">>
\* "Difference"
NomeDifference ==
  <<"D","i","f","f","e","r","e","n","c","e">>
\* "Merged"
NomeMerged ==
  <<"M","e","r","g","e","d">>
\* Names of input layers the registry is populated with.
\* "área de supressão X"
EntradaSupX ==
  <<"á","r","e","a"," ","d","e"," ","s","u","p","r","e","s","s","ã","o"," ","X">>
\* "AREA DE SUPRESSAO" with U+0303 (combining tilde) after the last A: upper case, decomposed
EntradaSupMaiusc ==
  <<"A","R","E","A"," ","D","E"," ","S","U","P","R","E","S","S","A","U+0303","O">>
\* "Área de Preservação Permanente Y"
EntradaAPPY ==
  <<"Á","r","e","a"," ","d","e"," ","P","r","e","s","e","r","v","a","ç","ã","o"," ","P","e","r","m","a","n","e","n","t","e"," ","Y">>
\* "RESERVA LEGAL"
EntradaRL ==
  <<"R","E","S","E","R","V","A"," ","L","E","G","A","L">>
\* "Reserva legal da área de supressão"  (contains two priority names)
EntradaRLSup ==
  <<"R","e","s","e","r","v","a"," ","l","e","g","a","l"," ","d","a"," ","á","r","e","a"," ","d","e"," ","s","u","p","r","e","s","s","ã","o">>
\* "Camada01"
EntradaC1 ==
  <<"C","a","m","a","d","a","0","1">>
\* "camada02 rios"
EntradaC2 ==
  <<"c","a","m","a","d","a","0","2"," ","r","i","o","s">>
\* "Camada01 Reserva legal"  (contains a generic and a priority name)
EntradaC1RL ==
  <<"C","a","m","a","d","a","0","1"," ","R","e","s","e","r","v","a"," ","l","e","g","a","l">>
\* "CAMADA03"
EntradaC3 ==
  <<"C","A","M","A","D","A","0","3">>
\* "Camada04"
EntradaC4 ==
  <<"C","a","m","a","d","a","0","4">>
\* "Rios"  (matches nothing)
EntradaRios ==
  <<"R","i","o","s">>

(***************************************************************************)
(* normalizar_texto: lower case, NFD decomposition, combining marks (Mn)   *)
(* dropped.  The character cases cover the alphabet of the names above;    *)
(* a combining mark is written by its code point, "U+0303".                *)
(***************************************************************************)
\* str.lower() on one character.
Lower(c) ==
  CASE c = "A" -> "a"
    [] c = "B" -> "b"
    [] c = "C" -> "c"
    [] c = "D" -> "d"
    [] c = "E" -> "e"
    [] c = "F" -> "f"
    [] c = "G" -> "g"
    [] c = "H" -> "h"
    [] c = "I" -> "i"
    [] c = "J" -> "j"
    [] c = "K" -> "k"
    [] c = "L" -> "l"
    [] c = "M" -> "m"
    [] c = "N" -> "n"
    [] c = "O" -> "o"
    [] c = "P" -> "p"
    [] c = "Q" -> "q"
    [] c = "R" -> "r"
    [] c = "S" -> "s"
    [] c = "T" -> "t"
    [] c = "U" -> "u"
    [] c = "V" -> "v"
    [] c = "W" -> "w"
    [] c = "X" -> "x"
    [] c = "Y" -> "y"
    [] c = "Z" -> "z"
    [] c = "Á" -> "á"
    [] c = "À" -> "à"
    [] c = "Â" -> "â"
    [] c = "Ã" -> "ã"
    [] c = "Ç" -> "ç"
    [] c = "É" -> "é"
    [] c = "Ê" -> "ê"
    [] c = "Í" -> "í"
    [] c = "Ó" -> "ó"
    [] c = "Ô" -> "ô"
    [] c = "Õ" -> "õ"
    [] c = "Ú" -> "ú"
    [] OTHER -> c

\* The characters of category Mn: grave, acute, circumflex, tilde, cedilla.
MarcasMn ==
  {"U+0300","U+0301","U+0302","U+0303","U+0327"}
\* unicodedata.normalize('NFD', c) for one character: a precomposed letter
\* becomes its base letter followed by its combining mark.
NFD(c) ==
  CASE c = "á" -> <<"a", "U+0301">>
    [] c = "à" -> <<"a", "U+0300">>
    [] c = "â" -> <<"a", "U+0302">>
    [] c = "ã" -> <<"a", "U+0303">>
    [] c = "ç" -> <<"c", "U+0327">>
    [] c = "é" -> <<"e", "U+0301">>
    [] c = "ê" -> <<"e", "U+0302">>
    [] c = "í" -> <<"i", "U+0301">>
    [] c = "ó" -> <<"o", "U+0301">>
    [] c = "ô" -> <<"o", "U+0302">>
    [] c = "õ" -> <<"o", "U+0303">>
    [] c = "ú" -> <<"u", "U+0301">>
    [] OTHER -> <<c>>

RECURSIVE Decompor(_)
\* unicodedata.normalize('NFD', texto.lower())
Decompor(texto) ==
  IF texto = <<>> THEN <<>>
  ELSE NFD(Lower(Head(texto))) \o Decompor(Tail(texto))

NaoMn(c) == c \notin MarcasMn
normalizar_texto(texto) ==
  IF texto = <<>> THEN <<>>
  ELSE SelectSeq(Decompor(texto), NaoMn)

\* Python's  a in b  on strings.
Contem(b, a) ==
  \E k \in 0..(Len(b) - Len(a)) : SubSeq(b, k + 1, k + Len(a)) = a

\* The test of the selection loops:
\*   self.normalizar_texto(nome) in self.normalizar_texto(layer.name())
Casa(nome, nomeCamada) ==
  Contem(normalizar_texto(nomeCamada), normalizar_texto(nome))

(***************************************************************************)
(* Layers.  A layer object is a record:                                    *)
(*   nil    TRUE for Python's None                                         *)
(*   src    k > 0: the object is the k-th layer of the registry at the     *)
(*          start of the run (an input layer); 0: a fresh memory layer     *)
(*          returned by the processing engine                              *)
(*   name, crs (authid), valid (isValid())                                 *)
(*   nArea  number of fields named Area_ha in the attribute table          *)
(*   feats  the features, each [g |-> cells covered, in the layer's CRS,   *)
(*          a |-> value of Area_ha in units of 0.0001 ha, or NULO]         *)
(***************************************************************************)
\* An attribute that was never set (NULL).
NULO == -1

None ==
  [nil |-> TRUE, src |-> 0, name |-> <<>>, crs |-> 0, valid |-> FALSE,
   nArea |-> 0, feats |-> <<>>]

\* layer.setName(nome)
SetName(layer, nome) == [layer EXCEPT !.name = nome]

\* Union of the geometries of a layer's features.
Regiao(layer) == UNION {layer.feats[k].g : k \in DOMAIN layer.feats}

(***************************************************************************)
(* The processing engine (qgis.processing.run), when the call succeeds.    *)
(***************************************************************************)
\* Coordinates of the cell set g, given in CRS de, in CRS para.
Transformar(g, de, para) ==
  {((x - 1 + (para - de) + NCells * NCrs) % NCells) + 1 : x \in g}

\* native:reprojectlayer
ReprojectLayer(layer, crs_destino) ==
  [layer EXCEPT
     !.src = 0, !.name = NomeReprojected, !.crs = crs_destino,
     !.feats = [k \in DOMAIN layer.feats |->
                  [layer.feats[k] EXCEPT
                     !.g = Transformar(@, layer.crs, crs_destino)]]]

\* native:fixgeometries: a fresh memory layer with the features of the input.
\* Every cell set is a valid geometry, so the repair keeps the region.
FixGeometries(layer) ==
  [layer EXCEPT !.src = 0, !.name = NomeFixed]

\* The features of the overlay as the overlay algorithms read them: in the
\* CRS of the INPUT layer.
NoCrsDe(overlay, input) ==
  [k \in DOMAIN overlay.feats |->
     [overlay.feats[k] EXCEPT !.g = Transformar(@, overlay.crs, input.crs)]]

RECURSIVE InterFeats(_, _, _, _, _, _)
\* Features of native:intersection: one per pair (input feature, overlay
\* feature) whose geometries meet, with the attributes of both; of the two
\* Area_ha columns the input's keeps the name.
InterFeats(fa, fb, ka, kb, aTem, bTem) ==
  IF ka > Len(fa) THEN <<>>
  ELSE IF kb > Len(fb) THEN InterFeats(fa, fb, ka + 1, 1, aTem, bTem)
  ELSE LET g == fa[ka].g \cap fb[kb].g
           a == IF aTem THEN fa[ka].a ELSE IF bTem THEN fb[kb].a ELSE NULO
       IN  (IF g = {} THEN <<>> ELSE <<[g |-> g, a |-> a]>>)
             \o InterFeats(fa, fb, ka, kb + 1, aTem, bTem)

\* native:intersection with INPUT input and OVERLAY overlay.
Intersection(input, overlay) ==
  [nil |-> FALSE, src |-> 0, name |-> NomeIntersection, crs |-> input.crs,
   valid |-> TRUE,
   nArea |-> IF input.nArea + overlay.nArea > 0 THEN 1 ELSE 0,
   feats |-> InterFeats(input.feats, NoCrsDe(overlay, input), 1, 1,
                        input.nArea > 0, overlay.nArea > 0)]

RECURSIVE DiffFeats(_, _, _)
\* Features of native:difference: each input feature less the overlay's
\* region; a feature left with no geometry is not written.
DiffFeats(fa, corte, ka) ==
  IF ka > Len(fa) THEN <<>>
  ELSE (IF fa[ka].g \ corte = {} THEN <<>>
        ELSE <<[fa[ka] EXCEPT !.g = @ \ corte]>>)
         \o DiffFeats(fa, corte, ka + 1)

\* A difference call with INPUT and OVERLAY exchanged: the overlay less the
\* input.
DifferenceTrocada(input, overlay) ==
  [nil |-> FALSE, src |-> 0, name |-> NomeDifference, crs |-> overlay.crs,
   valid |-> TRUE, nArea |-> overlay.nArea,
   feats |-> DiffFeats(overlay.feats,
                       UNION {Transformar(input.feats[k].g, input.crs, overlay.crs)
                                : k \in DOMAIN input.feats},
                       1)]

\* native:difference with INPUT input and OVERLAY overlay.
Difference(input, overlay) ==
  [nil |-> FALSE, src |-> 0, name |-> NomeDifference, crs |-> input.crs,
   valid |-> TRUE, nArea |-> input.nArea,
   feats |-> DiffFeats(input.feats,
                       UNION {Transformar(overlay.feats[k].g, overlay.crs, input.crs)
                                : k \in DOMAIN overlay.feats},
                       1)]

RECURSIVE MergeFeats(_, _, _)
MergeFeats(ls, crs, k) ==
  IF k > Len(ls) THEN <<>>
  ELSE [m \in DOMAIN ls[k].feats |->
          [ls[k].feats[m] EXCEPT !.g = Transformar(@, ls[k].crs, crs)]]
         \o MergeFeats(ls, crs, k + 1)

\* native:mergevectorlayers: the features of the layers, one after the
\* other, in the CRS asked for.
MergeVectorLayers(ls, crs) ==
  [nil |-> FALSE, src |-> 0, name |-> NomeMerged, crs |-> crs, valid |-> TRUE,
   nArea |-> IF \E k \in DOMAIN ls : ls[k].nArea > 0 THEN 1 ELSE 0,
   feats |-> MergeFeats(ls, crs, 1)]

\* Whether a call with these operands raises whatever the engine's state:
\* a None operand cannot be loaded as a source.
SemFonte(a, b) == a.nil \/ b.nil

\* The record kept of one engine call: the algorithm, the CRS of its
\* operands (0: None, or no second operand) and whether it returned.
Chamada(op, a, b, ok) == [op |-> op, a |-> a, b |-> b, ok |-> ok]

(***************************************************************************)
(* Funções auxiliares.  The parameter ok / okR / okF tells whether the     *)
(* engine call made by the function, if any, returns (TRUE) or raises.     *)
(***************************************************************************)
\* Area of a cell in quarter square metres.
AreaCelula(x) == IF x = 1 THEN 1 ELSE 4 * (x - 1)

RECURSIVE AreaQ(_)
\* geom.area(), in quarter square metres.
AreaQ(g) ==
  IF g = {} THEN 0
  ELSE LET x == CHOOSE y \in g : TRUE IN AreaCelula(x) + AreaQ(g \ {x})

\* round(geom.area() / 10000, 4), in units of 0.0001 ha: the nearest whole
\* number of square metres, a tie going to the even one.
AreaHa(g) ==
  LET q == AreaQ(g)
      f == q \div 4
      r == q % 4
  IN  IF r < 2 THEN f
      ELSE IF r > 2 THEN f + 1
      ELSE IF f % 2 = 0 THEN f ELSE f + 1

\* An annotator that does not look at the geometry before it writes: a
\* feature without geometry gets the area 0.
adicionar_campo_area_sem_teste(layer) ==
  IF layer.nil \/ ~layer.valid THEN layer
  ELSE [layer EXCEPT
          !.nArea = IF @ = 0 THEN 1 ELSE @,
          !.feats = [k \in DOMAIN layer.feats |->
                       [layer.feats[k] EXCEPT !.a = AreaHa(layer.feats[k].g)]]]

\* adicionar_campo_area: the layer after the call.
adicionar_campo_area(layer) ==
  IF layer.nil \/ ~layer.valid THEN layer
  ELSE [layer EXCEPT
          !.nArea = IF @ = 0 THEN 1 ELSE @,
          !.feats = [k \in DOMAIN layer.feats |->
                       IF layer.feats[k].g # {}
                       THEN [layer.feats[k] EXCEPT !.a = AreaHa(layer.feats[k].g)]
                       ELSE layer.feats[k]]]

\* corrigir_geometria: what the function returns.
corrigir_geometria(layer, ok) ==
  IF layer.nil \/ ~layer.valid THEN None
  ELSE IF ok THEN FixGeometries(layer)
  ELSE layer

\* The engine call corrigir_geometria makes.
ChamadasCorrigir(layer, ok) ==
  IF layer.nil \/ ~layer.valid THEN {}
  ELSE {Chamada("fixgeometries", layer.crs, 0, ok)}

\* reprojetar_para: what the function returns.
reprojetar_para(layer, crs_destino_authid, ok) ==
  IF layer.nil \/ ~layer.valid THEN None
  ELSE IF layer.crs = crs_destino_authid THEN layer
  ELSE IF ok THEN ReprojectLayer(layer, crs_destino_authid)
  ELSE layer

\* The engine call reprojetar_para makes.
ChamadasReprojetar(layer, crs_destino_authid, ok) ==
  IF layer.nil \/ ~layer.valid \/ layer.crs = crs_destino_authid THEN {}
  ELSE {Chamada("reprojectlayer", layer.crs, crs_destino_authid, ok)}

\* self.corrigir_geometria(self.reprojetar_para(layer, crs))
Condicionar(layer, crs, okR, okF) ==
  corrigir_geometria(reprojetar_para(layer, crs, okR), okF)

ChamadasCondicionar(layer, crs, okR, okF) ==
  ChamadasReprojetar(layer, crs, okR)
    \cup ChamadasCorrigir(reprojetar_para(layer, crs, okR), okF)

\* Number of engine calls, among those told by the flags oks, chosen to raise.
RECURSIVE Falsos(_)
Falsos(oks) ==
  IF oks = <<>> THEN 0
  ELSE (IF Head(oks) THEN 0 ELSE 1) + Falsos(Tail(oks))

\* A flag may be FALSE only for a call that is made: conditioning a layer
\* calls the reprojection unless the CRS is the target's, and the repair
\* unless the layer is None or invalid.
EscolhaCond(layer, crs, okR, okF) ==
  /\ okR \/ ChamadasReprojetar(layer, crs, okR) # {}
  /\ okF \/ ChamadasCorrigir(reprojetar_para(layer, crs, okR), okF) # {}

RECURSIVE Casadas(_, _, _)
\* The inner loop of the selection: the positions, in registry order from k
\* on, of the layers whose name contains nome.
Casadas(nome, ls, k) ==
  IF k > Len(ls) THEN <<>>
  ELSE (IF Casa(nome, ls[k].name) THEN <<k>> ELSE <<>>)
         \o Casadas(nome, ls, k + 1)

RECURSIVE SelecionarComBreak(_, _, _)
\* A selection that stops at the first layer found for each name.
SelecionarComBreak(nomes, ls, n) ==
  IF n > Len(nomes) THEN <<>>
  ELSE (IF Casadas(nomes[n], ls, 1) = <<>> THEN <<>>
        ELSE <<Head(Casadas(nomes[n], ls, 1))>>)
       \o SelecionarComBreak(nomes, ls, n + 1)

RECURSIVE Selecionar(_, _, _)
\* The selection loops: for nome in nomes: for layer in layers: append.
Selecionar(nomes, ls, n) ==
  IF n > Len(nomes) THEN <<>>
  ELSE Casadas(nomes[n], ls, 1) \o Selecionar(nomes, ls, n + 1)

\* QgsProject.instance().addMapLayer(layer): a layer object already in the
\* registry is not added again; reg holds the current state of the object.
AddMapLayer(reg, layer) ==
  IF layer.src > 0 THEN [reg EXCEPT ![layer.src] = layer]
  ELSE Append(reg, layer)

\* An input layer object changed in place shows in the registry.
Refletir(reg, layer) ==
  IF ~layer.nil /\ layer.src > 0 THEN [reg EXCEPT ![layer.src] = layer]
  ELSE reg

(***************************************************************************)
(* State.                                                                  *)
(***************************************************************************)
VARIABLES
  variant,       \* which program runs: "processamento" (src/Interseccao.py)
                 \* or "executar" (src/unnamed/part_000)
  registry,      \* QgsProject.instance().mapLayers(): the layer objects, in order
  layers,        \* the local list  layers = list(project.mapLayers().values())
  pc,            \* position in the entry point; "fim": returned; "erro": an
                 \* exception left the entry point
  modo,          \* pipeline taken: "ambiental", "generico", "nenhum"; "" before
  camadas,       \* the selected layers, as positions in layers
  crs_base,      \* crs_base
  base_corr,     \* camada_base_corrigida / camada_base_corr
  layer_app,     \* layer_app
  layer_rl,      \* layer_rl
  layer_fora,    \* layer_fora
  i,             \* loop index (0-based, as in the code); annotator calls made
  j,             \* position in  outras  of the generic difference chain
  camadas_corr,  \* camadas_corr (executar, generic)
  exclusivas,    \* exclusivas (executar, generic)
  temp,          \* temp (executar, generic)
  chamadas,      \* the engine calls made so far (set of Chamada records)
  falhas,        \* how many more engine calls may raise in this run
  publicadas,    \* the layer objects handed to addMapLayer by this run, in order
  alvo           \* the layer handed directly to adicionar_campo_area

vars ==
  <<variant, registry, layers, pc, modo, camadas, crs_base, base_corr,
    layer_app, layer_rl, layer_fora, i, j, camadas_corr, exclusivas, temp,
    chamadas, falhas, publicadas, alvo>>

\* An input layer with one feature.
Entrada(k, nome, crs, valid, g) ==
  [nil |-> FALSE, src |-> k, name |-> nome, crs |-> crs, valid |-> valid,
   nArea |-> 0, feats |-> <<[g |-> g, a |-> NULO]>>]

\* The names input layers are drawn from.
NomesEntrada ==
  {EntradaSupX, EntradaSupMaiusc, EntradaAPPY, EntradaRL, EntradaRLSup,
   EntradaC1RL, EntradaC2, EntradaRios}

\* Registries named for one pipeline: the three environmental layers, or
\* Camada01..Camada04; a further layer matches nothing.
NomesAmbientais == <<EntradaSupX, EntradaAPPY, EntradaRL>>
NomesGenericos  == <<EntradaC1, EntradaC2, EntradaC3, EntradaC4>>
NomeEm(nomes, k) == IF k <= Len(nomes) THEN nomes[k] ELSE EntradaRios

\* The geometry of the k-th layer where the geometry is not what varies.
GeomFixa(k) == {x \in Cells : x # k - 1}

\* The locals of the entry point before it runs.
Parado ==
  /\ pc = "inicio"
  /\ modo = ""
  /\ camadas = <<>>
  /\ crs_base = 0
  /\ base_corr = None
  /\ layer_app = None
  /\ layer_rl = None
  /\ layer_fora = None
  /\ i = 0
  /\ j = 0
  /\ camadas_corr = <<>>
  /\ exclusivas = <<>>
  /\ temp = None
  /\ chamadas = {}
  /\ publicadas = <<>>

\* Registries whose layer names vary: valid layers in one CRS, with the
\* geometry of their position; no engine call raises.
InitNomes ==
  /\ \E n \in 0..MaxLayers : \E f \in [1..n -> NomesEntrada] :
       registry = [k \in 1..n |-> Entrada(k, f[k], 1, TRUE, GeomFixa(k))]
  /\ falhas = 0

\* Registries whose geometries vary in the first layers, as many as there
\* are priority names, the overlays in a CRS of their own; no engine call
\* raises.
InitGeom ==
  /\ \E n \in 2..MaxLayers : \E nomes \in {NomesAmbientais, NomesGenericos} :
       \E g \in [{k \in 1..n : k <= Len(nomes_prioritarios)} -> SUBSET Cells] :
         \E c \in CRSs :
           registry = [k \in 1..n |->
                         Entrada(k, NomeEm(nomes, k), IF k = 1 THEN 1 ELSE c, TRUE,
                                 IF k \in DOMAIN g THEN g[k] ELSE GeomFixa(k))]
  /\ falhas = 0

\* Registries whose CRS vary layer by layer; up to MaxFalhas engine calls raise.
InitCrs ==
  /\ \E n \in 2..MaxLayers : \E nomes \in {NomesAmbientais, NomesGenericos} :
       \E c \in [1..n -> CRSs] :
         registry = [k \in 1..n |->
                       Entrada(k, NomeEm(nomes, k), c[k], TRUE, GeomFixa(k))]
  /\ falhas = MaxFalhas

\* Registries with invalid layers (isValid() false); up to MaxFalhas engine
\* calls raise.
InitValid ==
  /\ \E n \in 2..MaxLayers : \E nomes \in {NomesAmbientais, NomesGenericos} :
       \E v \in [1..n -> BOOLEAN] :
         registry = [k \in 1..n |->
                       Entrada(k, NomeEm(nomes, k), 1, v[k], GeomFixa(k))]
  /\ falhas = MaxFalhas

Init ==
  /\ variant \in {"processamento", "executar"}
  /\ InitNomes \/ InitGeom \/ InitCrs \/ InitValid
  /\ Parado
  /\ layers = <<>>
  /\ alvo = None

\* The layer object selected at (0-based) position k of camadas.
Camada(k) == layers[camadas[k + 1]]

\* The result of an overlay call inside try: the output, or None when the
\* call raised (the except branch leaves the variable as it was: None).
Tenta(ok, input, overlay) == ok /\ ~SemFonte(input, overlay)

\* lyr published: annotated, then added to the project.
Publicar(reg, lyr) ==
  IF lyr.nil THEN reg ELSE AddMapLayer(reg, adicionar_campo_area(lyr))
Publicada(lyr) ==
  IF lyr.nil THEN <<>> ELSE <<adicionar_campo_area(lyr)>>

(***************************************************************************)
(* src/Interseccao.py: processamento().                                    *)
(* A local variable of the code is bound to its value by                   *)
(*   \E local \in {value} :                                                *)
(* and the flags okR, okF, okI, okD tell which engine calls return.        *)
(***************************************************************************)
\* Lines 95-124: the registry is read and the layers are selected.
A_Select ==
  /\ variant = "processamento" /\ pc = "inicio"
  /\ layers' = registry
  /\ \E prior \in {Selecionar(nomes_prioritarios, registry, 1)} :
     \E cams \in {IF Len(prior) < 2 THEN Selecionar(nomes_genericos, registry, 1)
                 ELSE prior} :
     LET modo_generico == Len(prior) < 2
     IN  /\ camadas' = cams
         /\ modo' = IF Len(cams) < 2 THEN "nenhum"
                    ELSE IF modo_generico THEN "generico" ELSE "ambiental"
         /\ pc' = IF Len(cams) < 2 THEN "fim" ELSE "A_base"
  /\ UNCHANGED <<variant, registry, crs_base, base_corr, layer_app, layer_rl,
                 layer_fora, i, j, camadas_corr, exclusivas, temp, chamadas, falhas,
                 publicadas, alvo>>

\* Lines 126-130: the base layer is conditioned.
A_Base ==
  /\ pc = "A_base"
  /\ \E okR, okF \in BOOLEAN :
       /\ Falsos(<<okR, okF>>) <= falhas
       /\ \E camada_base \in {Camada(0)} :
          \E crs \in {camada_base.crs} :
            /\ EscolhaCond(camada_base, crs, okR, okF)
            /\ falhas' = falhas - Falsos(<<okR, okF>>)
            /\ crs_base' = crs
            /\ base_corr' = Condicionar(camada_base, crs, okR, okF)
            /\ chamadas' = chamadas \cup ChamadasCondicionar(camada_base, crs, okR, okF)
  /\ pc' = IF modo = "generico" THEN "A_gen" ELSE "A_app"
  /\ i' = 1
  /\ UNCHANGED <<variant, registry, layers, modo, camadas, layer_app, layer_rl,
                 layer_fora, j, camadas_corr, exclusivas, temp, publicadas, alvo>>

\* Lines 141-165: one iteration of the generic loop, and the return after
\* the last one.
A_Gen ==
  /\ pc = "A_gen"
  /\ \E okR, okF, okI \in BOOLEAN :
       /\ Falsos(<<okR, okF, okI>>) <= falhas
       /\ \E overlay \in {Camada(i)} :
          \E overlay_corr \in {Condicionar(overlay, crs_base, okR, okF)} :
          \E feito \in {Tenta(okI, base_corr, overlay_corr)} :
          \E layer_result \in {SetName(Intersection(base_corr, overlay_corr),
               NomeAreaCamada(i))} :
            /\ EscolhaCond(overlay, crs_base, okR, okF)
            /\ okI \/ ~SemFonte(base_corr, overlay_corr)
            /\ falhas' = falhas - Falsos(<<okR, okF, okI>>)
            /\ chamadas' = chamadas
                 \cup ChamadasCondicionar(overlay, crs_base, okR, okF)
                 \cup {Chamada("intersection", base_corr.crs, overlay_corr.crs, feito)}
            /\ registry' = IF feito THEN Publicar(registry, layer_result) ELSE registry
            /\ publicadas' = IF feito THEN publicadas \o Publicada(layer_result)
                             ELSE publicadas
  /\ i' = i + 1
  /\ pc' = IF i + 1 < Len(camadas) THEN "A_gen" ELSE "fim"
  /\ UNCHANGED <<variant, layers, modo, camadas, crs_base, base_corr, layer_app,
                 layer_rl, layer_fora, j, camadas_corr, exclusivas, temp, alvo>>

\* Lines 176-201: the APP intersection, then the base less what overlapped.
A_App ==
  /\ pc = "A_app"
  /\ \E okR, okF, okI, okD \in BOOLEAN :
       /\ Falsos(<<okR, okF, okI, okD>>) <= falhas
       /\ \E overlay_app \in {Camada(1)} :
          \E overlay_app_corr \in {Condicionar(overlay_app, crs_base, okR, okF)} :
          \E inter \in {Tenta(okI, base_corr, overlay_app_corr)} :
          \E app \in {IF inter
               THEN SetName(Intersection(base_corr, overlay_app_corr), NomeSaidaAPP)
               ELSE None} :
          \E corte \in {IF ~app.nil THEN app ELSE overlay_app_corr} :
          \E dif \in {Tenta(okD, base_corr, corte)} :
            /\ EscolhaCond(overlay_app, crs_base, okR, okF)
            /\ okI \/ ~SemFonte(base_corr, overlay_app_corr)
            /\ okD \/ ~SemFonte(base_corr, corte)
            /\ falhas' = falhas - Falsos(<<okR, okF, okI, okD>>)
            /\ layer_app' = app
            /\ base_corr' = IF dif THEN Difference(base_corr, corte) ELSE base_corr
            /\ chamadas' = chamadas
                 \cup ChamadasCondicionar(overlay_app, crs_base, okR, okF)
                 \cup {Chamada("intersection", base_corr.crs, overlay_app_corr.crs, inter),
                       Chamada("difference", base_corr.crs, corte.crs, dif)}
  /\ pc' = IF Len(camadas) >= 3 THEN "A_rl" ELSE "A_semrl"
  /\ UNCHANGED <<variant, registry, layers, modo, camadas, crs_base, layer_rl,
                 layer_fora, i, j, camadas_corr, exclusivas, temp, publicadas, alvo>>

\* Lines 204-231: the RL intersection and the final difference.
A_RL ==
  /\ pc = "A_rl"
  /\ \E okR, okF, okI, okD \in BOOLEAN :
       /\ Falsos(<<okR, okF, okI, okD>>) <= falhas
       /\ \E overlay_rl \in {Camada(2)} :
          \E overlay_rl_corr \in {Condicionar(overlay_rl, crs_base, okR, okF)} :
          \E inter \in {Tenta(okI, overlay_rl_corr, base_corr)} :
          \E rl \in {IF inter
               THEN SetName(Intersection(overlay_rl_corr, base_corr), NomeSaidaRL)
               ELSE None} :
          \E corte \in {IF ~rl.nil THEN rl ELSE overlay_rl_corr} :
          \E dif \in {Tenta(okD, base_corr, corte)} :
            /\ EscolhaCond(overlay_rl, crs_base, okR, okF)
            /\ okI \/ ~SemFonte(overlay_rl_corr, base_corr)
            /\ okD \/ ~SemFonte(base_corr, corte)
            /\ falhas' = falhas - Falsos(<<okR, okF, okI, okD>>)
            /\ layer_rl' = rl
            /\ layer_fora' = IF dif
                             THEN SetName(Difference(base_corr, corte), NomeSaidaFora)
                             ELSE base_corr
            /\ chamadas' = chamadas
                 \cup ChamadasCondicionar(overlay_rl, crs_base, okR, okF)
                 \cup {Chamada("intersection", overlay_rl_corr.crs, base_corr.crs, inter),
                       Chamada("difference", base_corr.crs, corte.crs, dif)}
  /\ pc' = "A_pub"
  /\ UNCHANGED <<variant, registry, layers, modo, camadas, crs_base, base_corr,
                 layer_app, i, j, camadas_corr, exclusivas, temp, publicadas, alvo>>

\* Lines 232-234: no third layer. setName on None raises AttributeError,
\* outside every try.
A_SemRL ==
  /\ pc = "A_semrl"
  /\ IF base_corr.nil
     THEN /\ pc' = "erro"
          /\ UNCHANGED <<layer_fora, registry>>
     ELSE /\ layer_fora' = SetName(base_corr, NomeSaidaFora)
          /\ registry' = Refletir(registry, SetName(base_corr, NomeSaidaFora))
          /\ pc' = "A_pub"
  /\ UNCHANGED <<variant, layers, modo, camadas, crs_base, base_corr, layer_app,
                 layer_rl, i, j, camadas_corr, exclusivas, temp, chamadas, falhas,
                 publicadas, alvo>>

\* Lines 237-245: every layer that is not None is annotated and added.
A_Pub ==
  /\ pc = "A_pub"
  /\ registry' = Publicar(Publicar(Publicar(registry, layer_app), layer_rl), layer_fora)
  /\ publicadas' = publicadas \o Publicada(layer_app) \o Publicada(layer_rl)
                     \o Publicada(layer_fora)
  /\ pc' = "fim"
  /\ UNCHANGED <<variant, layers, modo, camadas, crs_base, base_corr, layer_app,
                 layer_rl, layer_fora, i, j, camadas_corr, exclusivas, temp,
                 chamadas, falhas, alvo>>

(***************************************************************************)
(* src/unnamed/part_000: executar().                                       *)
(***************************************************************************)
\* Lines 88-118, 193, 218-219: the registry is read, both lists are built
\* and the branch is taken.
B_Select ==
  /\ variant = "executar" /\ pc = "inicio"
  /\ layers' = registry
  /\ \E camadas_ambientais \in {Selecionar(nomes_prioritarios, registry, 1)} :
     \E camadas_genericas \in {Selecionar(nomes_genericos, registry, 1)} :
         IF Len(camadas_ambientais) >= 2
         THEN camadas' = camadas_ambientais /\ modo' = "ambiental" /\ pc' = "B_base"
         ELSE IF Len(camadas_genericas) >= 2
         THEN camadas' = camadas_genericas /\ modo' = "generico" /\ pc' = "B_cond"
         ELSE camadas' = <<>> /\ modo' = "nenhum" /\ pc' = "fim"
  /\ UNCHANGED <<variant, registry, crs_base, base_corr, layer_app, layer_rl,
                 layer_fora, i, j, camadas_corr, exclusivas, temp, chamadas, falhas,
                 publicadas, alvo>>

\* Lines 120-126: the base layer is conditioned.
B_Base ==
  /\ pc = "B_base"
  /\ \E okR, okF \in BOOLEAN :
       /\ Falsos(<<okR, okF>>) <= falhas
       /\ \E camada_base \in {Camada(0)} :
          \E crs \in {camada_base.crs} :
            /\ EscolhaCond(camada_base, crs, okR, okF)
            /\ falhas' = falhas - Falsos(<<okR, okF>>)
            /\ crs_base' = crs
            /\ base_corr' = Condicionar(camada_base, crs, okR, okF)
            /\ chamadas' = chamadas \cup ChamadasCondicionar(camada_base, crs, okR, okF)
  /\ pc' = "B_app"
  /\ UNCHANGED <<variant, registry, layers, modo, camadas, layer_app, layer_rl,
                 layer_fora, i, j, camadas_corr, exclusivas, temp, publicadas, alvo>>

\* Lines 129-153: the APP intersection, published at once, then the base
\* less what overlapped.
B_App ==
  /\ pc = "B_app"
  /\ \E okR, okF, okI, okD \in BOOLEAN :
       /\ Falsos(<<okR, okF, okI, okD>>) <= falhas
       /\ \E overlay_app \in {Camada(1)} :
          \E overlay_app_corr \in {Condicionar(overlay_app, crs_base, okR, okF)} :
          \E inter \in {Tenta(okI, base_corr, overlay_app_corr)} :
          \E app \in {IF inter THEN adicionar_campo_area(
               SetName(Intersection(base_corr, overlay_app_corr), NomeSaidaAPP))
               ELSE None} :
          \E corte \in {IF ~app.nil THEN app ELSE overlay_app_corr} :
          \E dif \in {Tenta(okD, base_corr, corte)} :
            /\ EscolhaCond(overlay_app, crs_base, okR, okF)
            /\ okI \/ ~SemFonte(base_corr, overlay_app_corr)
            /\ okD \/ ~SemFonte(base_corr, corte)
            /\ falhas' = falhas - Falsos(<<okR, okF, okI, okD>>)
            /\ layer_app' = app
            /\ registry' = IF inter THEN AddMapLayer(registry, app) ELSE registry
            /\ publicadas' = IF inter THEN Append(publicadas, app) ELSE publicadas
            /\ base_corr' = IF dif THEN Difference(base_corr, corte) ELSE base_corr
            /\ chamadas' = chamadas
                 \cup ChamadasCondicionar(overlay_app, crs_base, okR, okF)
                 \cup {Chamada("intersection", base_corr.crs, overlay_app_corr.crs, inter),
                       Chamada("difference", base_corr.crs, corte.crs, dif)}
  /\ pc' = IF Len(camadas) >= 3 THEN "B_rl" ELSE "B_semrl"
  /\ UNCHANGED <<variant, layers, modo, camadas, crs_base, layer_rl, layer_fora,
                 i, j, camadas_corr, exclusivas, temp, alvo>>

\* Lines 156-183: the RL intersection and the final difference, each
\* published at once.
B_RL ==
  /\ pc = "B_rl"
  /\ \E okR, okF, okI, okD \in BOOLEAN :
       /\ Falsos(<<okR, okF, okI, okD>>) <= falhas
       /\ \E overlay_rl \in {Camada(2)} :
          \E overlay_rl_corr \in {Condicionar(overlay_rl, crs_base, okR, okF)} :
          \E inter \in {Tenta(okI, overlay_rl_corr, base_corr)} :
          \E rl \in {IF inter THEN adicionar_campo_area(
               SetName(Intersection(overlay_rl_corr, base_corr), NomeSaidaRL))
               ELSE None} :
          \E corte \in {IF ~rl.nil THEN rl ELSE overlay_rl_corr} :
          \E dif \in {Tenta(okD, base_corr, corte)} :
          \E fora \in {IF dif THEN adicionar_campo_area(
               SetName(Difference(base_corr, corte), NomeSaidaFora)) ELSE None} :
          \E reg1 \in {IF inter THEN AddMapLayer(registry, rl) ELSE registry} :
            /\ EscolhaCond(overlay_rl, crs_base, okR, okF)
            /\ okI \/ ~SemFonte(overlay_rl_corr, base_corr)
            /\ okD \/ ~SemFonte(base_corr, corte)
            /\ falhas' = falhas - Falsos(<<okR, okF, okI, okD>>)
            /\ layer_rl' = rl
            /\ layer_fora' = fora
            /\ registry' = IF dif THEN AddMapLayer(reg1, fora) ELSE reg1
            /\ publicadas' = publicadas \o (IF inter THEN <<rl>> ELSE <<>>)
                               \o (IF dif THEN <<fora>> ELSE <<>>)
            /\ chamadas' = chamadas
                 \cup ChamadasCondicionar(overlay_rl, crs_base, okR, okF)
                 \cup {Chamada("intersection", overlay_rl_corr.crs, base_corr.crs, inter),
                       Chamada("difference", base_corr.crs, corte.crs, dif)}
  /\ pc' = "fim"
  /\ UNCHANGED <<variant, layers, modo, camadas, crs_base, base_corr, layer_app,
                 i, j, camadas_corr, exclusivas, temp, alvo>>

\* Lines 184-188: no third layer. setName on None raises AttributeError,
\* outside every try.
B_SemRL ==
  /\ pc = "B_semrl"
  /\ IF base_corr.nil
     THEN /\ pc' = "erro"
          /\ UNCHANGED <<layer_fora, registry, publicadas>>
     ELSE LET fora == adicionar_campo_area(SetName(base_corr, NomeSaidaFora))
          IN  /\ layer_fora' = fora
              /\ registry' = AddMapLayer(registry, fora)
              /\ publicadas' = Append(publicadas, fora)
              /\ pc' = "fim"
  /\ UNCHANGED <<variant, layers, modo, camadas, crs_base, base_corr, layer_app,
                 layer_rl, i, j, camadas_corr, exclusivas, temp, chamadas, falhas, alvo>>

\* Lines 195-196: crs_base, and one element of the list comprehension that
\* conditions every generic layer.
B_Cond ==
  /\ pc = "B_cond"
  /\ \E okR, okF \in BOOLEAN :
       /\ Falsos(<<okR, okF>>) <= falhas
       /\ \E crs \in {Camada(0).crs} :
          \E l \in {Camada(Len(camadas_corr))} :
            /\ EscolhaCond(l, crs, okR, okF)
            /\ falhas' = falhas - Falsos(<<okR, okF>>)
            /\ crs_base' = crs
            /\ camadas_corr' = Append(camadas_corr, Condicionar(l, crs, okR, okF))
            /\ chamadas' = chamadas \cup ChamadasCondicionar(l, crs, okR, okF)
  /\ IF Len(camadas_corr) + 1 < Len(camadas)
     THEN pc' = "B_cond" /\ UNCHANGED <<i, j>>
     ELSE pc' = "B_dif" /\ i' = 0 /\ j' = 0
  /\ UNCHANGED <<variant, registry, layers, modo, camadas, base_corr, layer_app,
                 layer_rl, layer_fora, exclusivas, temp, publicadas, alvo>>

\* outras without the filter  if j != i : every layer, the base included.
OutraSemFiltro(k) == camadas_corr[k + 1]

\* outras = [c for j, c in enumerate(camadas_corr) if j != i], at position k.
Outra(k) == camadas_corr[(IF k < i THEN k ELSE k + 1) + 1]

\* Lines 200-205: one difference call of the chain of base i; no try around
\* it, so a call that raises ends the run with the exception.
B_Dif ==
  /\ pc = "B_dif"
  /\ \E ok \in BOOLEAN :
       /\ Falsos(<<ok>>) <= falhas
       /\ \E base \in {camadas_corr[i + 1]} :
          \E entrada \in {IF j = 0 THEN base ELSE temp} :
          \E o \in {Outra(j)} :
          \E feito \in {Tenta(ok, entrada, o)} :
          \E ultimo \in {j + 1 = Len(camadas_corr) - 1} :
            /\ ok \/ ~SemFonte(entrada, o)
            /\ falhas' = falhas - Falsos(<<ok>>)
            /\ chamadas' = chamadas
                 \cup {Chamada("difference", entrada.crs, o.crs, feito)}
            /\ IF ~feito
               THEN pc' = "erro" /\ UNCHANGED <<temp, exclusivas, i, j>>
               ELSE /\ temp' = Difference(entrada, o)
                    /\ IF ultimo
                       THEN /\ exclusivas' = Append(exclusivas, Difference(entrada, o))
                            /\ i' = i + 1
                            /\ j' = 0
                            /\ pc' = IF i + 1 < Len(camadas_corr) THEN "B_dif"
                                     ELSE "B_merge"
                       ELSE /\ j' = j + 1
                            /\ pc' = "B_dif"
                            /\ UNCHANGED <<exclusivas, i>>
  /\ UNCHANGED <<variant, registry, layers, modo, camadas, crs_base, base_corr,
                 layer_app, layer_rl, layer_fora, camadas_corr, publicadas, alvo>>

\* Lines 208-216: the exclusive layers are merged and the result published;
\* no try around the merge.
B_Merge ==
  /\ pc = "B_merge"
  /\ \E ok \in BOOLEAN :
       /\ Falsos(<<ok>>) <= falhas
       /\ \E fora_total \in {adicionar_campo_area(
               SetName(MergeVectorLayers(exclusivas, Camada(0).crs), NomeForaTotal))} :
            /\ falhas' = falhas - Falsos(<<ok>>)
            /\ chamadas' = chamadas \cup {Chamada("mergevectorlayers", 0, 0, ok)}
            /\ IF ok
               THEN /\ registry' = AddMapLayer(registry, fora_total)
                    /\ publicadas' = Append(publicadas, fora_total)
                    /\ pc' = "fim"
               ELSE /\ pc' = "erro"
                    /\ UNCHANGED <<registry, publicadas>>
  /\ UNCHANGED <<variant, layers, modo, camadas, crs_base, base_corr, layer_app,
                 layer_rl, layer_fora, i, j, camadas_corr, exclusivas, temp, alvo>>

(***************************************************************************)
(* adicionar_campo_area called directly on a layer.                        *)
(***************************************************************************)
\* The layers the annotator is handed: None, or a layer of up to MaxFeats
\* features, with or without an Area_ha column already holding values.
ValoresAntigos == {NULO, 3}

Alvos ==
  {None} \cup
  { [nil |-> FALSE, src |-> 0, name |-> EntradaRios, crs |-> 1, valid |-> v,
     nArea |-> n, feats |-> f] :
      v \in BOOLEAN, n \in {0, 1},
      f \in UNION {[1..m -> [g : SUBSET Cells, a : ValoresAntigos]] : m \in 0..MaxFeats} }

InitAnota ==
  /\ variant = "processamento"
  /\ registry = <<>>
  /\ falhas = 0
  /\ Parado
  /\ \E l \in Alvos :
       /\ l.nArea = 0 => \A k \in DOMAIN l.feats : l.feats[k].a = NULO
       /\ alvo = l
       /\ layers = <<l>>

\* One call of adicionar_campo_area(alvo).  layers keeps the layer as it
\* was before the first call, publicadas as it was after the first call.
Anotar ==
  /\ pc = "inicio" /\ i < MaxAnota
  /\ alvo' = adicionar_campo_area(alvo)
  /\ i' = i + 1
  /\ publicadas' = IF i = 0 THEN <<adicionar_campo_area(alvo)>> ELSE publicadas
  /\ UNCHANGED <<variant, registry, layers, pc, modo, camadas, crs_base,
                 base_corr, layer_app, layer_rl, layer_fora, j, camadas_corr,
                 exclusivas, temp, chamadas, falhas>>

(***************************************************************************)
(* Specifications.                                                         *)
(***************************************************************************)
Next ==
  \/ A_Select \/ A_Base \/ A_Gen \/ A_App \/ A_RL \/ A_SemRL \/ A_Pub
  \/ B_Select \/ B_Base \/ B_App \/ B_RL \/ B_SemRL
  \/ B_Cond \/ B_Dif \/ B_Merge

\* One run of either program on a registry.
Spec == Init /\ [][Next]_vars

NextAnota == Anotar

\* Repeated calls of the annotator on one layer.
SpecAnota == InitAnota /\ [][NextAnota]_vars

(***************************************************************************)
(* Vocabulary of the properties.                                           *)
(***************************************************************************)
\* No engine call of the run has raised.
SemFalha == \A c \in chamadas : c.ok

\* The run has returned from the entry point.
Terminou == pc = "fim"

\* The state right after the selection: the mode is decided and nothing
\* else has been done.
AposSelecao ==
  \/ pc \in {"A_base", "B_base", "B_cond"} /\ chamadas = {}
  \/ pc = "fim" /\ modo = "nenhum"

\* The (name, layer) pairs of the registry read by the run that match.
ParesCasados(nomes) ==
  {par \in (DOMAIN nomes) \X (DOMAIN layers) :
     Casa(nomes[par[1]], layers[par[2]].name)}

\* The layers of the registry read by the run that match one of the names.
LayersCasadas(nomes) == {par[2] : par \in ParesCasados(nomes)}

\* The region of a layer in the coordinates of CRS crs.
RegiaoEm(layer, crs) == Transformar(Regiao(layer), layer.crs, crs)

\* The geometries of the features of a layer, in order.
Geoms(layer) == [k \in DOMAIN layer.feats |-> layer.feats[k].g]

RECURSIVE GeomsDe(_, _)
\* The geometries of the features of the layers ls, from the k-th on.
GeomsDe(ls, k) ==
  IF k > Len(ls) THEN <<>> ELSE Geoms(ls[k]) \o GeomsDe(ls, k + 1)

(***************************************************************************)
(* C1  Partition disjointness in priority mode.                            *)
(***************************************************************************)
\* The ground region of a published layer (coordinates of CRS 1).
Terreno(layer) == RegiaoEm(layer, 1)

\* C1: when a run of the priority pipeline has returned, whatever engine
\* calls raised, any two layers it published share no area.
C1_ParticoesDisjuntas ==
  (Terminou /\ modo = "ambiental") =>
    \A p, q \in DOMAIN publicadas :
      p < q => Terreno(publicadas[p]) \cap Terreno(publicadas[q]) = {}

(***************************************************************************)
(* C2  Mode selection precedence.                                          *)
(***************************************************************************)
\* C2: the priority pipeline is taken whenever at least two layers match the
\* priority names (and whenever there are at least two priority matches),
\* however many layers match Camada01..Camada04; the generic pipeline is
\* taken only with fewer than two priority matches and at least two generic
\* matches.
C2_PrecedenciaDoModo ==
  AposSelecao =>
    \E pp \in {ParesCasados(nomes_prioritarios)} :
    \E pg \in {ParesCasados(nomes_genericos)} :
      /\ Cardinality({par[2] : par \in pp}) >= 2 => modo = "ambiental"
      /\ Cardinality(pp) >= 2 => modo = "ambiental"
      /\ modo = "generico" => Cardinality(pp) < 2 /\ Cardinality(pg) >= 2
      /\ modo = "ambiental" => pc \in {"A_base", "B_base"}
      /\ modo = "generico" => pc \in {"A_base", "B_cond"}

\* The priority pipeline taken although two generic names match as well.
C2_Witness ==
  /\ AposSelecao /\ modo = "ambiental"
  /\ Cardinality(ParesCasados(nomes_genericos)) >= 2

(***************************************************************************)
(* C3  Insufficient input is a clean no-op.                                *)
(***************************************************************************)
\* C3: when fewer than two layers match the priority names and fewer than
\* two layers match the generic names, the run returns having made no
\* engine call, added no layer and changed no layer of the registry.
C3_EntradaInsuficiente ==
  (pc \notin {"inicio", "A_base", "B_base", "B_cond"}
     /\ Cardinality(LayersCasadas(nomes_prioritarios)) < 2
     /\ Cardinality(LayersCasadas(nomes_genericos)) < 2) =>
    /\ Terminou /\ modo = "nenhum"
    /\ chamadas = {}
    /\ publicadas = <<>>
    /\ registry = layers

(***************************************************************************)
(* C4  No engine failure escapes a run.                                    *)
(***************************************************************************)
\* C4: in neither program and in neither mode does an exception leave the
\* entry point, whatever engine calls raise and whatever layers are invalid.
C4_NenhumaExcecaoEscapa == pc # "erro"

(***************************************************************************)
(* C5  Generic-mode exclusive regions.                                     *)
(***************************************************************************)
\* The generic run has returned, on 2 to 4 matched layers, no call raising.
GenericoSemFalha ==
  Terminou /\ modo = "generico" /\ Len(camadas) \in 2..4 /\ SemFalha

\* The region of the k-th matched layer, in the CRS of the first.
Ent(k) == RegiaoEm(layers[camadas[k]], layers[camadas[1]].crs)

\* The k-th matched layer less every other matched layer.
Excl(k) == Ent(k) \ UNION {Ent(m) : m \in (DOMAIN camadas) \ {k}}

\* The area covered by one and only one matched layer.
CobertaUmaVez ==
  {x \in Cells : Cardinality({k \in DOMAIN camadas : x \in Ent(k)}) = 1}

\* The regions produced are the N exclusive regions, pairwise disjoint,
\* their union the area covered exactly once, and the one published layer,
\* "Fora Total", holds their features and nothing else.
RegioesExclusivas ==
  /\ Len(exclusivas) = Len(camadas)
  /\ \A k \in DOMAIN exclusivas :
       RegiaoEm(exclusivas[k], layers[camadas[1]].crs) = Excl(k)
  /\ \A k, m \in DOMAIN exclusivas :
       k # m => Regiao(exclusivas[k]) \cap Regiao(exclusivas[m]) = {}
  /\ UNION {Regiao(exclusivas[k]) : k \in DOMAIN exclusivas} = CobertaUmaVez
  /\ Len(publicadas) = 1
  /\ publicadas[1].name = NomeForaTotal
  /\ publicadas[1].crs = layers[camadas[1]].crs
  /\ Geoms(publicadas[1]) = GeomsDe(exclusivas, 1)
  /\ registry = Append(layers, publicadas[1])

\* C5 as claimed: in both programs, a generic run on 2 to 4 matched layers
\* in which no engine call raises produces the exclusive regions and
\* publishes them as the single layer "Fora Total".
C5_Original == GenericoSemFalha => RegioesExclusivas

\* C5 as amended: the same, for executar() of src/unnamed/part_000 only.
C5_ExclusivasEmExecutar ==
  (GenericoSemFalha /\ variant = "executar") => RegioesExclusivas

\* executar() has merged the exclusive regions of three layers, two of them
\* overlapping and reprojected, with area left to publish.
C5_Witness ==
  /\ GenericoSemFalha /\ variant = "executar"
  /\ Len(camadas) = 3
  /\ publicadas[1].feats # <<>>
  /\ Ent(1) \cap Ent(2) # {}
  /\ \E c \in chamadas : c.op = "reprojectlayer"

(***************************************************************************)
(* C6  Priority-mode coverage.                                             *)
(***************************************************************************)
\* Layers matching all three priority names are in the registry read.
TresNomesPresentes ==
  \A n \in DOMAIN nomes_prioritarios :
    \E k \in DOMAIN layers : Casa(nomes_prioritarios[n], layers[k].name)

\* C6: with the three priority names present and no engine call raising,
\* the run publishes the APP, RL and outside partitions, and the union of
\* their regions is the region of the base layer.
C6_CoberturaDaBase ==
  (Terminou /\ modo = "ambiental" /\ SemFalha /\ TresNomesPresentes) =>
    /\ [k \in DOMAIN publicadas |-> publicadas[k].name]
         = <<NomeSaidaAPP, NomeSaidaRL, NomeSaidaFora>>
    /\ UNION {RegiaoEm(publicadas[k], layers[camadas[1]].crs) : k \in DOMAIN publicadas}
         = Regiao(layers[camadas[1]])
    /\ Casa(NomeSupressao, layers[camadas[1]].name)

\* Three partitions published from overlays that had to be reprojected, the
\* APP partition and another one with area.
C6_Witness ==
  /\ Terminou /\ modo = "ambiental" /\ SemFalha
  /\ Len(publicadas) = 3
  /\ Regiao(publicadas[1]) # {}
  /\ Regiao(publicadas[2]) \cup Regiao(publicadas[3]) # {}
  /\ \E c \in chamadas : c.op = "reprojectlayer"
  /\ TresNomesPresentes

(***************************************************************************)
(* C7  One layer per priority slot.                                        *)
(***************************************************************************)
\* The first layer of the registry read, in registry order, matching nome.
Primeira(nome) ==
  CHOOSE k \in DOMAIN layers :
    /\ Casa(nome, layers[k].name)
    /\ \A m \in 1..(k - 1) : ~Casa(nome, layers[m].name)

\* C7: in priority mode the pipeline is fed 2 or 3 layers, the n-th of them
\* the first layer of the registry matching the n-th priority name.
C7_UmaCamadaPorNome ==
  (AposSelecao /\ modo = "ambiental") =>
    /\ Len(camadas) \in {2, 3}
    /\ \A n \in DOMAIN camadas :
         /\ Casa(nomes_prioritarios[n], layers[camadas[n]].name)
         /\ camadas[n] = Primeira(nomes_prioritarios[n])

(***************************************************************************)
(* C8  Input layers are only read.                                         *)
(***************************************************************************)
\* C8: whatever engine calls raise, the layers of the registry read by the
\* run stay as they were, the registry is only appended to, and every layer
\* the run publishes is a fresh output of the engine.
C8_EntradasSoLidas ==
  pc # "inicio" =>
    /\ Len(registry) >= Len(layers)
    /\ SubSeq(registry, 1, Len(layers)) = layers
    /\ \A k \in DOMAIN publicadas : publicadas[k].src = 0

(***************************************************************************)
(* C9  Common CRS before overlay.                                          *)
(***************************************************************************)
\* The calls of the overlay algorithms.
Sobreposicoes == {c \in chamadas : c.op \in {"intersection", "difference"}}

\* Every layer handed to an overlay call carries the CRS of the first
\* selected layer, and the engine is never asked to reproject a layer to
\* the CRS it already has.
CrsComum ==
  /\ \A c \in Sobreposicoes :
       /\ c.a # 0 => c.a = crs_base
       /\ c.b # 0 => c.b = crs_base
  /\ \A c \in chamadas : c.op = "reprojectlayer" => c.a # c.b

\* C9: in every run, whatever engine calls raise, at each intersection or
\* difference call both operands carry the CRS of the first selected layer,
\* and a layer already in that CRS is passed through without a reprojection
\* call.
C9_CrsComumAntesDaSobreposicao == CrsComum

(***************************************************************************)
(* C10  Area annotator idempotence.                                        *)
(***************************************************************************)
\* The layer handed to the annotator is a valid layer.
AlvoValido == ~alvo.nil /\ alvo.valid

\* After at least one call on a valid layer: one Area_ha column, and every
\* feature with a geometry holds the rounded area of its own geometry.
AnotadaUmaVez ==
  /\ alvo.nArea = 1
  /\ \A k \in DOMAIN alvo.feats :
       alvo.feats[k].g # {} => alvo.feats[k].a = AreaHa(alvo.feats[k].g)
  /\ Geoms(alvo) = Geoms(layers[1])

\* A later call leaves the layer as the first call left it; on None or an
\* invalid layer nothing changes at all.
AnotacaoEstavel ==
  /\ (i >= 2 /\ AlvoValido) => alvo = publicadas[1]
  /\ ~AlvoValido => alvo = layers[1]

\* C10 as claimed: after one or more calls on a valid layer the features
\* with a geometry hold their area, the features with an empty or null
\* geometry have Area_ha unset, and a second call changes nothing.
C10_Original ==
  /\ (i >= 1 /\ AlvoValido) =>
       /\ AnotadaUmaVez
       /\ \A k \in DOMAIN alvo.feats :
            alvo.feats[k].g = {} => alvo.feats[k].a = NULO
  /\ AnotacaoEstavel

\* C10 as amended: the features with an empty or null geometry keep the
\* value they had before the first call (unset when the column is new).
C10_AnotadorIdempotente ==
  /\ (i >= 1 /\ AlvoValido) =>
       /\ AnotadaUmaVez
       /\ \A k \in DOMAIN alvo.feats :
            alvo.feats[k].g = {} => alvo.feats[k].a = layers[1].feats[k].a
  /\ AnotacaoEstavel

\* Two calls on a valid layer that already had the column: one feature
\* without geometry, holding an old value, and one whose value was replaced.
C10_Witness ==
  /\ i = 2 /\ AlvoValido
  /\ layers[1].nArea = 1
  /\ \E k \in DOMAIN alvo.feats : alvo.feats[k].g = {} /\ alvo.feats[k].a # NULO
  /\ \E k \in DOMAIN alvo.feats :
       alvo.feats[k].g # {} /\ alvo.feats[k].a # layers[1].feats[k].a
=============================================================================
